---- MODULE Spec2Model ----
(***************************************************************************)
(* A model of EventCompressor (src/gum/observers/keyboard_compressor.py):  *)
(* the streaming state machine that turns raw keyboard / mouse events into *)
(* key_click, typed_string, mouse_click, condensed_move and                *)
(* condensed_scroll records.                                               *)
(*                                                                         *)
(* Time is counted in ticks of 0.1 s, so the thresholds 0.7, 0.7, 1.0 and  *)
(* 0.5 seconds are 7, 7, 10 and 5 ticks.  On that grid round(x, 5) leaves  *)
(* every difference of two timestamps unchanged, so it is not written.     *)
(* A key representation (a Python str) is a sequence of one-character      *)
(* strings, so that startswith, len and join are computed as the code      *)
(* computes them.  A raw event (a Python dict) is a record; a field the    *)
(* dict does not hold is a field the record does not have.  One line of    *)
(* the output file is one record of the sequence output.                   *)
(***************************************************************************)
EXTENDS Integers, Sequences, FiniteSets, TLC

VARIABLES
    pending_events,        \* dict of pending presses, in insertion order
    typed_char_buffer,     \* list of [char, ts, duration]
    last_typed_char_ts,
    mouse_move_buffer,     \* list of raw move events
    last_mouse_move_ts,
    mouse_scroll_buffer,   \* list of raw scroll events
    last_mouse_scroll_ts,
    output,                \* the lines written to output_file, in order
    closed,                \* output_file has been closed by finalize
    error,                 \* a call raised an exception
    input                  \* history: the events handed to process_event

vars == <<pending_events, typed_char_buffer, last_typed_char_ts,
          mouse_move_buffer, last_mouse_move_ts,
          mouse_scroll_buffer, last_mouse_scroll_ts,
          output, closed, error, input>>

---------------------------------------------------------------------------
(* Configuration thresholds, in ticks of 0.1 s *)
KEY_CLICK_MAX_DELTA == 7
MOUSE_CLICK_MAX_DELTA == 7
TYPING_MAX_INTERKEY_DELTA == 10
MOUSE_SEQUENCE_MAX_DELTA == 5

---------------------------------------------------------------------------
(* Python str helpers over sequences of characters *)

StartsWith(str, prefix) ==
    /\ Len(str) >= Len(prefix)
    /\ SubSeq(str, 1, Len(prefix)) = prefix

RECURSIVE Join(_)
Join(strs) ==
    IF strs = <<>> THEN <<>> ELSE Head(strs) \o Join(Tail(strs))

RECURSIVE Sum(_)
Sum(nums) ==
    IF nums = <<>> THEN 0 ELSE Head(nums) + Sum(Tail(nums))

KeyPrefix == <<"K", "e", "y", ".">>
KeySpace == <<"K", "e", "y", ".", "s", "p", "a", "c", "e">>

is_char_key(key_repr) ==
    IF key_repr = <<>> THEN FALSE
    ELSE IF StartsWith(key_repr, KeyPrefix) THEN key_repr = KeySpace
    ELSE TRUE

(* Mutant: the space key is stored under its name *)
to_char_Literal(key_repr) == key_repr

to_char(key_repr) ==
    IF key_repr = KeySpace THEN <<" ">> ELSE key_repr

(* dict access: event[f] raises KeyError when f is missing; event.get(f, d) *)
Has(event, f) == f \in DOMAIN event

EventGetKey(event) == IF Has(event, "key") THEN event.key ELSE <<>>

---------------------------------------------------------------------------
(* The compressor's fields as one record, so that a method is a function   *)
(* from the state before the call to the state after it.                   *)

State ==
    [pending_events |-> pending_events,
     typed_char_buffer |-> typed_char_buffer,
     last_typed_char_ts |-> last_typed_char_ts,
     mouse_move_buffer |-> mouse_move_buffer,
     last_mouse_move_ts |-> last_mouse_move_ts,
     mouse_scroll_buffer |-> mouse_scroll_buffer,
     last_mouse_scroll_ts |-> last_mouse_scroll_ts,
     output |-> output,
     error |-> error]

InitState ==
    [pending_events |-> <<>>,
     typed_char_buffer |-> <<>>,
     last_typed_char_ts |-> 0,
     mouse_move_buffer |-> <<>>,
     last_mouse_move_ts |-> 0,
     mouse_scroll_buffer |-> <<>>,
     last_mouse_scroll_ts |-> 0,
     output |-> <<>>,
     error |-> FALSE]

write_event(s, event_data) ==
    [s EXCEPT !.output = Append(@, event_data)]

(* An exception leaves the call where it is: what was written stays.       *)
Raise(s) == [s EXCEPT !.error = TRUE]

(* pending_events: a dict keeps its keys in insertion order; an entry is   *)
(* [id, ev].  The ids f"keyboard_{key}" and f"mouse_{button}_{x}_{y}" are   *)
(* tuples: the formatted strings are equal exactly when the tuples are.    *)
KeyboardId(key) == <<"keyboard", key>>
(* Mutant: a mouse press is pending under its button alone *)
MouseId_ButtonOnly(button, x, y) == <<"mouse", button, 0, 0>>

MouseId(button, x, y) == <<"mouse", button, x, y>>

InPending(d, id) == \E i \in 1..Len(d) : d[i].id = id

PendingIndex(d, id) == CHOOSE i \in 1..Len(d) : d[i].id = id

PendingGet(d, id) == d[PendingIndex(d, id)].ev

PendingPop(d, id) ==
    LET i == PendingIndex(d, id)
    IN  SubSeq(d, 1, i - 1) \o SubSeq(d, i + 1, Len(d))

PendingSet(d, id, event) ==
    IF InPending(d, id)
    THEN [d EXCEPT ![PendingIndex(d, id)] = [id |-> id, ev |-> event]]
    ELSE Append(d, [id |-> id, ev |-> event])

---------------------------------------------------------------------------
(* The three flushes *)

(* Mutant: the flush writes its record and leaves the buffer as it is *)
flush_typed_char_buffer_NoClear(s) ==
    IF s.typed_char_buffer = <<>> THEN s
    ELSE
      LET buf == s.typed_char_buffer
          combined_string == Join([i \in 1..Len(buf) |-> buf[i].char])
      IN  write_event(s,
              [ts |-> buf[1].ts,
               device |-> "keyboard",
               type |-> "typed_string",
               string |-> combined_string,
               duration |-> buf[Len(buf)].ts + buf[Len(buf)].duration - buf[1].ts,
               num_chars |-> Len(combined_string)])

flush_typed_char_buffer(s) ==
    IF s.typed_char_buffer = <<>> THEN s
    ELSE
      LET buf == s.typed_char_buffer
          first_event == buf[1]
          last_event == buf[Len(buf)]
          combined_string == Join([i \in 1..Len(buf) |-> buf[i].char])
          start_ts == first_event.ts
          end_ts == last_event.ts + last_event.duration
          written == write_event(s,
              [ts |-> start_ts,
               device |-> "keyboard",
               type |-> "typed_string",
               string |-> combined_string,
               duration |-> end_ts - start_ts,
               num_chars |-> Len(combined_string)])
      IN  [written EXCEPT !.typed_char_buffer = <<>>,
                          !.last_typed_char_ts = 0]

(* Mutant: the end of the gesture is read from the first sample *)
flush_mouse_move_buffer_EndAtFirst(s) ==
    IF s.mouse_move_buffer = <<>> THEN s
    ELSE
      LET buf == s.mouse_move_buffer
          first_move == buf[1]
          last_move == buf[Len(buf)]
          written == write_event(s,
              [ts |-> first_move.ts,
               device |-> "mouse",
               type |-> "condensed_move",
               start_x |-> first_move.x,
               start_y |-> first_move.y,
               end_x |-> first_move.x,
               end_y |-> first_move.y,
               duration |-> last_move.ts - first_move.ts,
               num_moves |-> Len(buf)])
      IN  [written EXCEPT !.mouse_move_buffer = <<>>,
                          !.last_mouse_move_ts = 0]

flush_mouse_move_buffer(s) ==
    IF s.mouse_move_buffer = <<>> THEN s
    ELSE
      LET buf == s.mouse_move_buffer
          first_move == buf[1]
          last_move == buf[Len(buf)]
          written == write_event(s,
              [ts |-> first_move.ts,
               device |-> "mouse",
               type |-> "condensed_move",
               start_x |-> first_move.x,
               start_y |-> first_move.y,
               end_x |-> last_move.x,
               end_y |-> last_move.y,
               duration |-> last_move.ts - first_move.ts,
               num_moves |-> Len(buf)])
      IN  [written EXCEPT !.mouse_move_buffer = <<>>,
                          !.last_mouse_move_ts = 0]

(* Mutant: the scroll flush writes its record and keeps the samples *)
flush_mouse_scroll_buffer_NoClear(s) ==
    IF s.mouse_scroll_buffer = <<>> THEN s
    ELSE
      LET buf == s.mouse_scroll_buffer
      IN  write_event(s,
              [ts |-> buf[1].ts,
               device |-> "mouse",
               type |-> "condensed_scroll",
               total_dx |-> Sum([i \in 1..Len(buf) |-> buf[i].dx]),
               total_dy |-> Sum([i \in 1..Len(buf) |-> buf[i].dy]),
               duration |-> buf[Len(buf)].ts - buf[1].ts,
               num_scrolls |-> Len(buf)])

flush_mouse_scroll_buffer(s) ==
    IF s.mouse_scroll_buffer = <<>> THEN s
    ELSE
      LET buf == s.mouse_scroll_buffer
          first_scroll == buf[1]
          last_scroll == buf[Len(buf)]
      IN  IF \E i \in 1..Len(buf) : ~Has(buf[i], "dx") \/ ~Has(buf[i], "dy")
          THEN Raise(s)
          ELSE
            LET total_dx == Sum([i \in 1..Len(buf) |-> buf[i].dx])
                total_dy == Sum([i \in 1..Len(buf) |-> buf[i].dy])
                written == write_event(s,
                    [ts |-> first_scroll.ts,
                     device |-> "mouse",
                     type |-> "condensed_scroll",
                     total_dx |-> total_dx,
                     total_dy |-> total_dy,
                     duration |-> last_scroll.ts - first_scroll.ts,
                     num_scrolls |-> Len(buf)])
            IN  [written EXCEPT !.mouse_scroll_buffer = <<>>,
                                !.last_mouse_scroll_ts = 0]

(* Mutant: only the typed-character buffer is flushed on a timeout *)
flush_all_buffers_TypedOnly(s, current_ts) ==
    IF s.typed_char_buffer # <<>>
       /\ current_ts - s.last_typed_char_ts > TYPING_MAX_INTERKEY_DELTA
    THEN flush_typed_char_buffer(s) ELSE s

(* Mutant: a gap equal to the threshold flushes too *)
flush_all_buffers_Inclusive(s, current_ts) ==
    LET typed == IF s.typed_char_buffer # <<>>
                    /\ current_ts - s.last_typed_char_ts >= TYPING_MAX_INTERKEY_DELTA
                 THEN flush_typed_char_buffer(s) ELSE s
        moved == IF typed.mouse_move_buffer # <<>>
                    /\ current_ts - typed.last_mouse_move_ts >= MOUSE_SEQUENCE_MAX_DELTA
                 THEN flush_mouse_move_buffer(typed) ELSE typed
    IN  IF moved.mouse_scroll_buffer # <<>>
           /\ current_ts - moved.last_mouse_scroll_ts >= MOUSE_SEQUENCE_MAX_DELTA
        THEN flush_mouse_scroll_buffer(moved) ELSE moved

flush_all_buffers(s, current_ts) ==
    LET typed == IF s.typed_char_buffer # <<>>
                    /\ current_ts - s.last_typed_char_ts > TYPING_MAX_INTERKEY_DELTA
                 THEN flush_typed_char_buffer(s) ELSE s
        moved == IF typed.mouse_move_buffer # <<>>
                    /\ current_ts - typed.last_mouse_move_ts > MOUSE_SEQUENCE_MAX_DELTA
                 THEN flush_mouse_move_buffer(typed) ELSE typed
    IN  IF moved.mouse_scroll_buffer # <<>>
           /\ current_ts - moved.last_mouse_scroll_ts > MOUSE_SEQUENCE_MAX_DELTA
        THEN flush_mouse_scroll_buffer(moved) ELSE moved

---------------------------------------------------------------------------
(* process_event, lines 128-138: the flushes that precede classification. *)
(* Only the scroll flush can raise (a buffered scroll without dx or dy).  *)

(* Mutant: the move buffer is flushed only by events of another device *)
TypeChangeFlush_DeviceOnly(s, event) ==
    LET typed == IF event.device # "keyboard" \/ ~is_char_key(EventGetKey(event))
                 THEN flush_typed_char_buffer(s) ELSE s
        moved == IF event.device # "mouse"
                 THEN flush_mouse_move_buffer(typed) ELSE typed
    IN  IF event.device # "mouse" \/ event.type # "scroll"
        THEN flush_mouse_scroll_buffer(moved) ELSE moved

TypeChangeFlush(s, event) ==
    LET typed == IF event.device # "keyboard" \/ ~is_char_key(EventGetKey(event))
                 THEN flush_typed_char_buffer(s) ELSE s
        moved == IF event.device # "mouse" \/ event.type # "move"
                 THEN flush_mouse_move_buffer(typed) ELSE typed
    IN  IF event.device # "mouse" \/ event.type # "scroll"
        THEN flush_mouse_scroll_buffer(moved) ELSE moved

FlushForEvent(s, event) ==
    LET changed == TypeChangeFlush(s, event)
    IN  IF changed.error THEN changed
        ELSE flush_all_buffers(changed, event.ts)

(* Lines 142-193: a keyboard event *)
AppendTypedChar(s, char_to_add, press_ts, duration) ==
    [s EXCEPT !.typed_char_buffer =
                  Append(@, [char |-> char_to_add, ts |-> press_ts,
                             duration |-> duration]),
              !.last_typed_char_ts = press_ts]

(* Mutant: the stale press is logged and the new press is not stored *)
KeyboardPress_ForgetNew(s, event) ==
    LET pending_key_id == KeyboardId(event.key)
    IN  IF InPending(s.pending_events, pending_key_id)
        THEN [write_event(s, PendingGet(s.pending_events, pending_key_id))
                 EXCEPT !.pending_events = PendingPop(@, pending_key_id)]
        ELSE [s EXCEPT !.pending_events = PendingSet(@, pending_key_id, event)]

(* Mutant: a re-press overwrites the pending press without logging it *)
KeyboardPress_DropStale(s, event) ==
    [s EXCEPT !.pending_events = PendingSet(@, KeyboardId(event.key), event)]

KeyboardPress(s, event) ==
    LET pending_key_id == KeyboardId(event.key)
        logged == IF InPending(s.pending_events, pending_key_id)
                  THEN [write_event(s, PendingGet(s.pending_events, pending_key_id))
                           EXCEPT !.pending_events = PendingPop(@, pending_key_id)]
                  ELSE s
    IN  [logged EXCEPT !.pending_events = PendingSet(@, pending_key_id, event)]

(* Mutant: a character click is appended without the gap test *)
KeyClick_AlwaysAppend(s, press_event, event, duration) ==
    LET key == event.key
        key_click_event == [ts |-> press_event.ts,
                            device |-> "keyboard",
                            type |-> "key_click",
                            key |-> key,
                            duration |-> duration]
    IN  IF is_char_key(key)
        THEN AppendTypedChar(s, to_char(key), press_event.ts, duration)
        ELSE write_event(flush_typed_char_buffer(s), key_click_event)

KeyClick(s, press_event, event, duration) ==
    LET key == event.key
        key_click_event == [ts |-> press_event.ts,
                            device |-> "keyboard",
                            type |-> "key_click",
                            key |-> key,
                            duration |-> duration]
    IN  IF is_char_key(key)
        THEN IF s.typed_char_buffer = <<>>
                \/ press_event.ts - s.last_typed_char_ts <= TYPING_MAX_INTERKEY_DELTA
             THEN AppendTypedChar(s, to_char(key), press_event.ts, duration)
             ELSE AppendTypedChar(flush_typed_char_buffer(s), to_char(key),
                                  press_event.ts, duration)
        ELSE write_event(flush_typed_char_buffer(s), key_click_event)

(* Mutant: a slow pair of a character key is also put in the typed buffer *)
KeyboardRelease_SlowAppends(s, event) ==
    LET pending_key_id == KeyboardId(event.key)
    IN  IF InPending(s.pending_events, pending_key_id)
        THEN LET press_event == PendingGet(s.pending_events, pending_key_id)
                 popped == [s EXCEPT !.pending_events = PendingPop(@, pending_key_id)]
                 duration == event.ts - press_event.ts
                 logged == write_event(write_event(popped, press_event), event)
             IN  IF duration <= KEY_CLICK_MAX_DELTA
                 THEN KeyClick(popped, press_event, event, duration)
                 ELSE IF is_char_key(event.key)
                 THEN AppendTypedChar(logged, to_char(event.key),
                                      press_event.ts, duration)
                 ELSE logged
        ELSE write_event(s, event)

(* Mutant: a release without a pending press is dropped *)
KeyboardRelease_DropUnmatched(s, event) ==
    LET pending_key_id == KeyboardId(event.key)
    IN  IF InPending(s.pending_events, pending_key_id)
        THEN LET press_event == PendingGet(s.pending_events, pending_key_id)
                 popped == [s EXCEPT !.pending_events = PendingPop(@, pending_key_id)]
                 duration == event.ts - press_event.ts
             IN  IF duration <= KEY_CLICK_MAX_DELTA
                 THEN KeyClick(popped, press_event, event, duration)
                 ELSE write_event(write_event(popped, press_event), event)
        ELSE s

(* Mutant: the click threshold is exclusive *)
KeyboardRelease_Exclusive(s, event) ==
    LET pending_key_id == KeyboardId(event.key)
    IN  IF InPending(s.pending_events, pending_key_id)
        THEN LET press_event == PendingGet(s.pending_events, pending_key_id)
                 popped == [s EXCEPT !.pending_events = PendingPop(@, pending_key_id)]
                 duration == event.ts - press_event.ts
             IN  IF duration < KEY_CLICK_MAX_DELTA
                 THEN KeyClick(popped, press_event, event, duration)
                 ELSE write_event(write_event(popped, press_event), event)
        ELSE write_event(s, event)

KeyboardRelease(s, event) ==
    LET pending_key_id == KeyboardId(event.key)
    IN  IF InPending(s.pending_events, pending_key_id)
        THEN LET press_event == PendingGet(s.pending_events, pending_key_id)
                 popped == [s EXCEPT !.pending_events = PendingPop(@, pending_key_id)]
                 duration == event.ts - press_event.ts
             IN  IF duration <= KEY_CLICK_MAX_DELTA
                 THEN KeyClick(popped, press_event, event, duration)
                 ELSE write_event(write_event(popped, press_event), event)
        ELSE write_event(s, event)

KeyboardEvent(s, event) ==
    IF ~Has(event, "key") THEN Raise(s)
    ELSE IF event.type = "press" THEN KeyboardPress(s, event)
    ELSE IF event.type = "release" THEN KeyboardRelease(s, event)
    ELSE s

(* Lines 196-251: a mouse event *)
MousePress(s, event) ==
    LET pending_mouse_click_id == MouseId(event.button, event.x, event.y)
        logged == IF InPending(s.pending_events, pending_mouse_click_id)
                  THEN [write_event(s, PendingGet(s.pending_events, pending_mouse_click_id))
                           EXCEPT !.pending_events = PendingPop(@, pending_mouse_click_id)]
                  ELSE s
    IN  [logged EXCEPT !.pending_events = PendingSet(@, pending_mouse_click_id, event)]

(* Mutant: a release merges with its press whatever the time between them *)
MouseRelease_AlwaysMerges(s, event) ==
    LET pending_mouse_click_id == MouseId(event.button, event.x, event.y)
    IN  IF InPending(s.pending_events, pending_mouse_click_id)
        THEN LET press_event == PendingGet(s.pending_events, pending_mouse_click_id)
                 popped == [s EXCEPT !.pending_events =
                                         PendingPop(@, pending_mouse_click_id)]
                 duration == event.ts - press_event.ts
             IN  write_event(popped,
                     [ts |-> press_event.ts,
                      device |-> "mouse",
                      type |-> "mouse_click",
                      x |-> event.x,
                      y |-> event.y,
                      button |-> event.button,
                      duration |-> duration])
        ELSE write_event(s, event)

(* Mutant: the mouse_click carries the timestamp of the release *)
MouseRelease_StampsRelease(s, event) ==
    LET pending_mouse_click_id == MouseId(event.button, event.x, event.y)
    IN  IF InPending(s.pending_events, pending_mouse_click_id)
        THEN LET press_event == PendingGet(s.pending_events, pending_mouse_click_id)
                 popped == [s EXCEPT !.pending_events =
                                         PendingPop(@, pending_mouse_click_id)]
                 duration == event.ts - press_event.ts
             IN  IF duration <= MOUSE_CLICK_MAX_DELTA
                 THEN write_event(popped,
                          [ts |-> event.ts,
                           device |-> "mouse",
                           type |-> "mouse_click",
                           x |-> event.x,
                           y |-> event.y,
                           button |-> event.button,
                           duration |-> duration])
                 ELSE write_event(write_event(popped, press_event), event)
        ELSE write_event(s, event)

MouseRelease(s, event) ==
    LET pending_mouse_click_id == MouseId(event.button, event.x, event.y)
    IN  IF InPending(s.pending_events, pending_mouse_click_id)
        THEN LET press_event == PendingGet(s.pending_events, pending_mouse_click_id)
                 popped == [s EXCEPT !.pending_events =
                                         PendingPop(@, pending_mouse_click_id)]
                 duration == event.ts - press_event.ts
             IN  IF duration <= MOUSE_CLICK_MAX_DELTA
                 THEN write_event(popped,
                          [ts |-> press_event.ts,
                           device |-> "mouse",
                           type |-> "mouse_click",
                           x |-> event.x,
                           y |-> event.y,
                           button |-> event.button,
                           duration |-> duration])
                 ELSE write_event(write_event(popped, press_event), event)
        ELSE write_event(s, event)

MouseClick(s, event) ==
    IF ~Has(event, "button") \/ ~Has(event, "pressed") THEN Raise(s)
    ELSE IF event.pressed THEN MousePress(s, event)
    ELSE MouseRelease(s, event)

(* Mutant: a move takes the pending mouse presses out of the table *)
MouseMove_CancelsClick(s, event) ==
    LET started == IF s.mouse_move_buffer = <<>>
                      \/ event.ts - s.last_mouse_move_ts <= MOUSE_SEQUENCE_MAX_DELTA
                   THEN s
                   ELSE flush_mouse_move_buffer(s)
    IN  [started EXCEPT !.mouse_move_buffer = Append(@, event),
                        !.last_mouse_move_ts = event.ts,
                        !.pending_events =
                            SelectSeq(@, LAMBDA p : p.id[1] # "mouse")]

(* Mutant: a move to the place of the last buffered sample is not stored *)
MouseMove_SkipsRepeat(s, event) ==
    LET started == IF s.mouse_move_buffer = <<>>
                      \/ event.ts - s.last_mouse_move_ts <= MOUSE_SEQUENCE_MAX_DELTA
                   THEN s
                   ELSE flush_mouse_move_buffer(s)
        buf == started.mouse_move_buffer
    IN  IF buf # <<>> /\ buf[Len(buf)].x = event.x /\ buf[Len(buf)].y = event.y
        THEN [started EXCEPT !.last_mouse_move_ts = event.ts]
        ELSE [started EXCEPT !.mouse_move_buffer = Append(@, event),
                             !.last_mouse_move_ts = event.ts]

(* Mutant: a move that joins a run leaves the tracker at the run's start *)
MouseMove_TrackerStale(s, event) ==
    IF s.mouse_move_buffer = <<>>
    THEN [s EXCEPT !.mouse_move_buffer = Append(@, event),
                   !.last_mouse_move_ts = event.ts]
    ELSE IF event.ts - s.last_mouse_move_ts <= MOUSE_SEQUENCE_MAX_DELTA
    THEN [s EXCEPT !.mouse_move_buffer = Append(@, event)]
    ELSE [flush_mouse_move_buffer(s) EXCEPT !.mouse_move_buffer = <<event>>,
                                            !.last_mouse_move_ts = event.ts]

MouseMove(s, event) ==
    LET started == IF s.mouse_move_buffer = <<>>
                      \/ event.ts - s.last_mouse_move_ts <= MOUSE_SEQUENCE_MAX_DELTA
                   THEN s
                   ELSE flush_mouse_move_buffer(s)
    IN  [started EXCEPT !.mouse_move_buffer = Append(@, event),
                        !.last_mouse_move_ts = event.ts]

(* Mutant: a scroll replaces the buffered run instead of extending it *)
MouseScroll_Replace(s, event) ==
    LET started == IF s.mouse_scroll_buffer = <<>>
                      \/ event.ts - s.last_mouse_scroll_ts <= MOUSE_SEQUENCE_MAX_DELTA
                   THEN s
                   ELSE flush_mouse_scroll_buffer(s)
    IN  IF started.error THEN started
        ELSE [started EXCEPT !.mouse_scroll_buffer = <<event>>,
                             !.last_mouse_scroll_ts = event.ts]

MouseScroll(s, event) ==
    LET started == IF s.mouse_scroll_buffer = <<>>
                      \/ event.ts - s.last_mouse_scroll_ts <= MOUSE_SEQUENCE_MAX_DELTA
                   THEN s
                   ELSE flush_mouse_scroll_buffer(s)
    IN  IF started.error THEN started
        ELSE [started EXCEPT !.mouse_scroll_buffer = Append(@, event),
                             !.last_mouse_scroll_ts = event.ts]

(* Mutant: the button is read for every mouse event, not only for clicks *)
MouseEvent_ReadsButton(s, event) ==
    IF ~Has(event, "x") \/ ~Has(event, "y") \/ ~Has(event, "button") THEN Raise(s)
    ELSE IF event.type = "click" THEN MouseClick(s, event)
    ELSE IF event.type = "move" THEN MouseMove(s, event)
    ELSE IF event.type = "scroll" THEN MouseScroll(s, event)
    ELSE write_event(s, event)

MouseEvent(s, event) ==
    IF ~Has(event, "x") \/ ~Has(event, "y") THEN Raise(s)
    ELSE IF event.type = "click" THEN MouseClick(s, event)
    ELSE IF event.type = "move" THEN MouseMove(s, event)
    ELSE IF event.type = "scroll" THEN MouseScroll(s, event)
    ELSE write_event(s, event)

Classify(s, event) ==
    IF event.device = "keyboard" THEN KeyboardEvent(s, event)
    ELSE IF event.device = "mouse" THEN MouseEvent(s, event)
    ELSE write_event(s, event)

(* Mutant: only the timeout flush runs before classification *)
process_event_TimeoutOnly(s, event) ==
    LET flushed == flush_all_buffers(s, event.ts)
    IN  IF flushed.error THEN flushed ELSE Classify(flushed, event)

(* Mutant: the event is classified before the buffers are flushed *)
process_event_ClassifyFirst(s, event) ==
    LET classified == Classify(s, event)
    IN  IF classified.error THEN classified ELSE FlushForEvent(classified, event)

process_event(s, event) ==
    LET flushed == FlushForEvent(s, event)
    IN  IF flushed.error THEN flushed ELSE Classify(flushed, event)

(* Mutant: the pending presses are logged and stay in the table *)
WritePending_KeepsEntries(s) ==
    [s EXCEPT !.output =
        @ \o [i \in 1..Len(s.pending_events) |-> s.pending_events[i].ev]]

(* Lines 256-266.  list(keys()) is the insertion order of the dict. *)
RECURSIVE WritePending(_)
WritePending(s) ==
    IF s.pending_events = <<>> THEN s
    ELSE WritePending([write_event(s, s.pending_events[1].ev)
                          EXCEPT !.pending_events = Tail(@)])

(* Mutant: finalize logs the pending presses before it flushes the buffers *)
finalize_PendingFirst(s) ==
    LET logged == WritePending(s)
        typed == flush_typed_char_buffer(logged)
        moved == flush_mouse_move_buffer(typed)
    IN  flush_mouse_scroll_buffer(moved)

(* Mutant: finalize forgets the scroll buffer *)
finalize_SkipScroll(s) ==
    WritePending(flush_mouse_move_buffer(flush_typed_char_buffer(s)))

finalize(s) ==
    LET typed == flush_typed_char_buffer(s)
        moved == flush_mouse_move_buffer(typed)
        scrolled == flush_mouse_scroll_buffer(moved)
    IN  IF scrolled.error THEN scrolled ELSE WritePending(scrolled)

---------------------------------------------------------------------------
(* Raw events, as the observers log them (video_screen.py, lines 331-372): *)
(* key is k.char, or str(k) for a key without a char: "Key.ctrl", "<65>".  *)

KeyA == <<"a">>
KeyB == <<"b">>
KeyCtrl == <<"K", "e", "y", ".", "c", "t", "r", "l">>
KeyVk == <<"<", "6", "5", ">">>

KeyEv(t, ty, k) == [ts |-> t, device |-> "keyboard", type |-> ty, key |-> k]

ClickEv(t, b, px, py, prs) ==
    [ts |-> t, device |-> "mouse", type |-> "click", x |-> px, y |-> py,
     button |-> b, pressed |-> prs]

MoveEv(t, px, py) ==
    [ts |-> t, device |-> "mouse", type |-> "move", x |-> px, y |-> py]

ScrollEv(t, px, py, ddx, ddy) ==
    [ts |-> t, device |-> "mouse", type |-> "scroll", x |-> px, y |-> py,
     dx |-> ddx, dy |-> ddy]

(* Events the compressor does not classify, and one that is not well formed *)
OtherMouseEv(t) == [ts |-> t, device |-> "mouse", type |-> "drag", x |-> 0, y |-> 0]
OtherDeviceEv(t) == [ts |-> t, device |-> "gamepad", type |-> "press"]
OtherKeyEv(t) == [ts |-> t, device |-> "keyboard", type |-> "repeat", key |-> KeyA]
KeylessEv(t) == [ts |-> t, device |-> "keyboard", type |-> "press"]

WellFormed(event) ==
    /\ {"ts", "device", "type"} \subseteq DOMAIN event
    /\ event.device = "keyboard" => Has(event, "key")
    /\ event.device = "mouse" => {"x", "y"} \subseteq DOMAIN event
    /\ event.device = "mouse" /\ event.type = "click"
          => {"button", "pressed"} \subseteq DOMAIN event
    /\ event.device = "mouse" /\ event.type = "scroll"
          => {"dx", "dy"} \subseteq DOMAIN event

(* The timestamp of the last event handed in (0 before the first) *)
Now == IF input = <<>> THEN 0 ELSE input[Len(input)].ts

Held(k) == InPending(pending_events, KeyboardId(k))

(* Bounds of the model: the number of events of an input stream *)
MaxEvents == 3
MaxTyping == 4
MaxRun == 6
MaxMouse == 4
MaxClicks == 4
MaxButtons == 3
MaxTimeout == 5
MaxDegrade == 3
MaxBackstep == 4

(* Input streams of keys, clicks and gestures in any order; the clock may  *)
(* step back (an out-of-order timestamp).                                  *)
Deltas == {-3, 4, 11}

Events ==
    UNION {
      {KeyEv(t, ty, k) : ty \in {"press", "release"}, k \in {KeyA, KeyCtrl}}
      \cup {ClickEv(t, "Button.left", 0, 0, prs) : prs \in BOOLEAN}
      \cup {MoveEv(t, 1, 2), ScrollEv(t, 0, 0, 1, -1)}
      : t \in {Now + d : d \in Deltas}}

(* A typist: a key goes down only when it is up, and up only when it is    *)
(* down.  The steps 3, 7, 8 put a release 7 or 8 ticks after its press and *)
(* two presses 10 or 11 ticks apart.  The keys are a letter, the space     *)
(* key, a key without a char and a modifier.                               *)
TypingDeltas == {3, 7, 8}
TypingKeys == {KeyA, KeySpace, KeyVk, KeyCtrl}

TypingEvents ==
    UNION {
      {KeyEv(t, "press", k) : k \in {h \in TypingKeys : ~Held(h)}}
      \cup {KeyEv(t, "release", k) : k \in {h \in TypingKeys : Held(h)}}
      : t \in {Now + d : d \in TypingDeltas}}

---------------------------------------------------------------------------
(* The state machine *)

Init ==
    /\ pending_events = InitState.pending_events
    /\ typed_char_buffer = InitState.typed_char_buffer
    /\ last_typed_char_ts = InitState.last_typed_char_ts
    /\ mouse_move_buffer = InitState.mouse_move_buffer
    /\ last_mouse_move_ts = InitState.last_mouse_move_ts
    /\ mouse_scroll_buffer = InitState.mouse_scroll_buffer
    /\ last_mouse_scroll_ts = InitState.last_mouse_scroll_ts
    /\ output = InitState.output
    /\ error = InitState.error
    /\ closed = FALSE
    /\ input = <<>>

Commit(s) ==
    /\ pending_events' = s.pending_events
    /\ typed_char_buffer' = s.typed_char_buffer
    /\ last_typed_char_ts' = s.last_typed_char_ts
    /\ mouse_move_buffer' = s.mouse_move_buffer
    /\ last_mouse_move_ts' = s.last_mouse_move_ts
    /\ mouse_scroll_buffer' = s.mouse_scroll_buffer
    /\ last_mouse_scroll_ts' = s.last_mouse_scroll_ts
    /\ output' = s.output
    /\ error' = s.error

(* compressor.process_event(event), for each line of the input file *)
ProcessEvent(event) ==
    /\ ~closed
    /\ ~error
    /\ Commit(process_event(State, event))
    /\ input' = Append(input, event)
    /\ UNCHANGED closed

(* compressor.finalize(): the file is closed unless a flush raised *)
Finalize ==
    /\ ~closed
    /\ ~error
    /\ LET s == finalize(State)
       IN  /\ Commit(s)
           /\ closed' = ~s.error
    /\ UNCHANGED input

Next ==
    \/ \E event \in Events : Len(input) < MaxEvents /\ ProcessEvent(event)
    \/ Finalize

Spec == Init /\ [][Next]_vars

NextTyping ==
    \/ \E event \in TypingEvents : Len(input) < MaxTyping /\ ProcessEvent(event)
    \/ Finalize

SpecTyping == Init /\ [][NextTyping]_vars

(* A typist on two character keys, for runs of several characters *)
RunDeltas == {3, 8}
RunKeys == {KeyA, KeyB}

RunEvents ==
    UNION {
      {KeyEv(t, "press", k) : k \in {h \in RunKeys : ~Held(h)}}
      \cup {KeyEv(t, "release", k) : k \in {h \in RunKeys : Held(h)}}
      : t \in {Now + d : d \in RunDeltas}}

NextRun ==
    \/ \E event \in RunEvents : Len(input) < MaxRun /\ ProcessEvent(event)
    \/ Finalize

SpecRun == Init /\ [][NextRun]_vars

(* Typing and clicking with one mouse button at one place *)
ClickDeltas == {1, 11}

ClickEvents ==
    UNION {
      {KeyEv(t, ty, KeyA) : ty \in {"press", "release"}}
      \cup {ClickEv(t, "Button.left", 0, 0, prs) : prs \in BOOLEAN}
      \cup {MoveEv(t, 1, 2)}
      : t \in {Now + d : d \in ClickDeltas}}

NextClicks ==
    \/ \E event \in ClickEvents : Len(input) < MaxClicks /\ ProcessEvent(event)
    \/ Finalize

SpecClicks == Init /\ [][NextClicks]_vars

(* Two mouse buttons at two places: a release comes exactly               *)
(* MOUSE_CLICK_MAX_DELTA or one tick more after the event before it, at   *)
(* the place of the press or elsewhere.                                   *)
ButtonDeltas == {7, 8}
Buttons == {"Button.left", "Button.right"}
Places == {<<0, 0>>, <<1, 2>>}

ButtonEvents ==
    UNION {
      {ClickEv(t, b, pl[1], pl[2], prs) :
          b \in Buttons, pl \in Places, prs \in BOOLEAN}
      : t \in {Now + d : d \in ButtonDeltas}}

NextButtons ==
    \/ \E event \in ButtonEvents : Len(input) < MaxButtons /\ ProcessEvent(event)
    \/ Finalize

SpecButtons == Init /\ [][NextButtons]_vars

(* Mouse gestures: moves and scrolls 5 or 6 ticks apart, or 6 ticks back *)
MouseDeltas == {-6, 5, 6}

MouseEvents ==
    UNION {
      {MoveEv(t, 0, 0), MoveEv(t, 1, 2),
       ScrollEv(t, 0, 0, 1, 0), ScrollEv(t, 0, 0, -1, 2)}
      : t \in {Now + d : d \in MouseDeltas}}

NextMouse ==
    \/ \E event \in MouseEvents : Len(input) < MaxMouse /\ ProcessEvent(event)
    \/ Finalize

SpecMouse == Init /\ [][NextMouse]_vars

(* One character key typed and mouse gestures, every event exactly         *)
(* MOUSE_SEQUENCE_MAX_DELTA or one tick more after the one before: two     *)
(* steps make a gap of exactly TYPING_MAX_INTERKEY_DELTA, or more.         *)
TimeoutDeltas == {5, 6}

TimeoutEvents ==
    UNION {
      {KeyEv(t, IF Held(KeyA) THEN "release" ELSE "press", KeyA),
       MoveEv(t, 1, 2), ScrollEv(t, 0, 0, 1, -1)}
      : t \in {Now + d : d \in TimeoutDeltas}}

NextTimeout ==
    \/ \E event \in TimeoutEvents : Len(input) < MaxTimeout /\ ProcessEvent(event)
    \/ Finalize

SpecTimeout == Init /\ [][NextTimeout]_vars

(* A typist on two character keys whose events carry timestamps out of    *)
(* order: one tick or 12 ticks after the event before, or 11 ticks back.  *)
BackstepDeltas == {-11, 1, 12}

BackstepEvents ==
    UNION {
      {KeyEv(t, "press", k) : k \in {h \in RunKeys : ~Held(h)}}
      \cup {KeyEv(t, "release", k) : k \in {h \in RunKeys : Held(h)}}
      : t \in {Now + d : d \in BackstepDeltas}}

NextBackstep ==
    \/ \E event \in BackstepEvents : Len(input) < MaxBackstep /\ ProcessEvent(event)
    \/ Finalize

SpecBackstep == Init /\ [][NextBackstep]_vars

(* Degraded input: unmatched releases, repeated presses, slow pairs,       *)
(* timestamps that step back, events of unknown shape, and two events that *)
(* are not well formed (a keyboard event without key, a scroll without dx) *)
DegradeDeltas == {-8, 8}

DxlessScrollEv(t) ==
    [ts |-> t, device |-> "mouse", type |-> "scroll", x |-> 0, y |-> 0, dy |-> 1]

DegradeEvents ==
    UNION {
      {KeyEv(t, ty, KeyA) : ty \in {"press", "release"}}
      \cup {ClickEv(t, "Button.left", 0, 0, prs) : prs \in BOOLEAN}
      \cup {ScrollEv(t, 0, 0, 1, 0), DxlessScrollEv(t), KeylessEv(t),
            OtherMouseEv(t), OtherDeviceEv(t), OtherKeyEv(t)}
      : t \in {Now + d : d \in DegradeDeltas}}

NextDegrade ==
    \/ \E event \in DegradeEvents : Len(input) < MaxDegrade /\ ProcessEvent(event)
    \/ Finalize

SpecDegrade == Init /\ [][NextDegrade]_vars

---------------------------------------------------------------------------
(* Reading the input history and the output file *)

IsRecordOf(r, dev, ty) == r.device = dev /\ r.type = ty

IsKeyEvent(r, ty, k) ==
    IsRecordOf(r, "keyboard", ty) /\ Has(r, "key") /\ r.key = k

IsClickEvent(r, b, px, py, prs) ==
    /\ IsRecordOf(r, "mouse", "click")
    /\ r.button = b /\ r.x = px /\ r.y = py /\ r.pressed = prs

IsFlushRecord(r) ==
    r.type \in {"typed_string", "condensed_move", "condensed_scroll"}

(* How many entries of seq satisfy ... *)
NumKeyEvents(seq, ty, k) ==
    Cardinality({i \in 1..Len(seq) : IsKeyEvent(seq[i], ty, k)})

NumClickEvents(seq, b, px, py, prs) ==
    Cardinality({i \in 1..Len(seq) : IsClickEvent(seq[i], b, px, py, prs)})

NumEqual(seq, r) == Cardinality({i \in 1..Len(seq) : seq[i] = r})

NumOfType(seq, ty) == Cardinality({i \in 1..Len(seq) : seq[i].type = ty})

(* How often the characters of key k occur in the typed_string records *)
Occurrences(str, sub) ==
    Cardinality({i \in 1..(Len(str) - Len(sub) + 1) :
                    SubSeq(str, i, i + Len(sub) - 1) = sub})

NumTyped(seq, k) ==
    Sum([i \in 1..Len(seq) |->
            IF seq[i].type = "typed_string"
            THEN Occurrences(seq[i].string, to_char(k)) ELSE 0])

NumMerged(seq, k) == NumKeyEvents(seq, "key_click", k) + NumTyped(seq, k)

NumMouseClicks(seq, b, px, py) ==
    Cardinality({i \in 1..Len(seq) :
        /\ IsRecordOf(seq[i], "mouse", "mouse_click")
        /\ seq[i].button = b /\ seq[i].x = px /\ seq[i].y = py})

(* The records a step has appended to the output file *)
Written == SubSeq(output', Len(output) + 1, Len(output'))

AllKeys == {KeyA, KeyB, KeyVk, KeyCtrl, KeySpace}

(* The button and place of every mouse press, release and mouse_click *)
ClickIds(seq) ==
    {<<seq[i].button, seq[i].x, seq[i].y>> :
        i \in {j \in 1..Len(seq) :
                  /\ seq[j].device = "mouse"
                  /\ seq[j].type \in {"click", "mouse_click"}}}

---------------------------------------------------------------------------
(* C1  No event loss: once finalize has run, every key press and release   *)
(* and every mouse press and release of the input is in the output exactly *)
(* once: as a standalone record equal to the event, or merged, a press     *)
(* with a release, into one key_click, one mouse_click or one element of a *)
(* typed_string; a key_click or mouse_click is made of a press and a later *)
(* release that the input holds, and no standalone record is written more  *)
(* often than the input holds it.                                          *)
C1_NoEventLoss ==
    closed =>
      /\ \A k \in AllKeys : \A ty \in {"press", "release"} :
            NumKeyEvents(input, ty, k)
              = NumKeyEvents(output, ty, k) + NumMerged(output, k)
      /\ \A id \in ClickIds(input) \cup ClickIds(output) : \A prs \in BOOLEAN :
            NumClickEvents(input, id[1], id[2], id[3], prs)
              = NumClickEvents(output, id[1], id[2], id[3], prs)
                + NumMouseClicks(output, id[1], id[2], id[3])
      /\ \A i \in 1..Len(output) :
            LET r == output[i]
            IN  /\ r.type \in {"press", "release", "click"}
                      => NumEqual(output, r) <= NumEqual(input, r)
                /\ r.type = "key_click"
                      => \E p, q \in 1..Len(input) :
                            /\ p < q
                            /\ input[p] = KeyEv(r.ts, "press", r.key)
                            /\ input[q] = KeyEv(r.ts + r.duration, "release", r.key)
                /\ r.type = "mouse_click"
                      => \E p, q \in 1..Len(input) :
                            /\ p < q
                            /\ input[p] = ClickEv(r.ts, r.button, r.x, r.y, TRUE)
                            /\ input[q] = ClickEv(r.ts + r.duration, r.button,
                                                  r.x, r.y, FALSE)

(* A stream that ends with a typed character merged and a press left alone *)
C1_Witness ==
    /\ closed
    /\ Len(input) = 3
    /\ NumOfType(output, "typed_string") = 1
    /\ NumOfType(output, "press") = 1

---------------------------------------------------------------------------
(* C2  The step that runs finalize leaves the typed-character buffer, the  *)
(* mouse-move buffer, the mouse-scroll buffer and the pending-press table  *)
(* empty, and what it writes holds every press that was pending and a      *)
(* typed_string, condensed_move and condensed_scroll record for the        *)
(* characters, moves and scrolls that were buffered.                       *)
FinalizeStep == ~closed /\ closed'

C2_FinalizeEmptiesAll ==
    [][FinalizeStep =>
        /\ typed_char_buffer' = <<>>
        /\ mouse_move_buffer' = <<>>
        /\ mouse_scroll_buffer' = <<>>
        /\ pending_events' = <<>>
        /\ \A i \in 1..Len(pending_events) :
              NumEqual(Written, pending_events[i].ev) >= 1
        /\ typed_char_buffer # <<>> =>
              \E i \in 1..Len(Written) :
                 /\ Written[i].type = "typed_string"
                 /\ Written[i].string
                      = Join([j \in 1..Len(typed_char_buffer) |->
                                 typed_char_buffer[j].char])
        /\ mouse_move_buffer # <<>> =>
              \E i \in 1..Len(Written) :
                 /\ Written[i].type = "condensed_move"
                 /\ Written[i].num_moves = Len(mouse_move_buffer)
        /\ mouse_scroll_buffer # <<>> =>
              \E i \in 1..Len(Written) :
                 /\ Written[i].type = "condensed_scroll"
                 /\ Written[i].num_scrolls = Len(mouse_scroll_buffer)
    ]_vars

(* finalize has run with a scroll buffered and two presses pending *)
C2_Witness ==
    /\ closed
    /\ Len(output) = 3
    /\ output[1].type = "condensed_scroll"
    /\ output[2].type = "press"
    /\ output[3].type = "click"

---------------------------------------------------------------------------
(* A step that hands in the release of the key whose press was the event   *)
(* just before it, d ticks earlier.                                        *)
LastInput == input[Len(input)]
NewInput == input'[Len(input')]

ReleaseAfterPressStep ==
    /\ Len(input) >= 1
    /\ Len(input') = Len(input) + 1
    /\ IsRecordOf(LastInput, "keyboard", "press")
    /\ IsRecordOf(NewInput, "keyboard", "release")
    /\ NewInput.key = LastInput.key

PairDelta == NewInput.ts - LastInput.ts

IsClassified(r) == ~IsFlushRecord(r)

(* What the step wrote, without the records of buffers it flushed first *)
WrittenForEvent == SelectSeq(Written, IsClassified)

KeyClickRecord(press, release) ==
    [ts |-> press.ts, device |-> "keyboard", type |-> "key_click",
     key |-> press.key, duration |-> release.ts - press.ts]

(* C4 as stated: whatever the key, a press and its release d ticks later   *)
(* yield one key_click record when d <= KEY_CLICK_MAX_DELTA and the press  *)
(* and the release as two records when d > KEY_CLICK_MAX_DELTA.            *)
C4_AnyKeyYieldsKeyClick ==
    [][ReleaseAfterPressStep =>
         IF PairDelta <= KEY_CLICK_MAX_DELTA
         THEN WrittenForEvent = <<KeyClickRecord(LastInput, NewInput)>>
         ELSE WrittenForEvent = <<LastInput, NewInput>>
    ]_vars

(* C4 amended: the key_click record is written for a key that is not a     *)
(* character key; the click of a character key writes no record and        *)
(* becomes the last element of the typed-character buffer.  The boundary   *)
(* d = KEY_CLICK_MAX_DELTA is a click; above it the press and the release  *)
(* are written as they came, for every key.                                *)
C4_ClickBoundary ==
    [][ReleaseAfterPressStep =>
         IF PairDelta > KEY_CLICK_MAX_DELTA
         THEN /\ WrittenForEvent = <<LastInput, NewInput>>
              /\ Len(typed_char_buffer') <= Len(typed_char_buffer)
         ELSE IF is_char_key(NewInput.key)
         THEN /\ WrittenForEvent = <<>>
              /\ typed_char_buffer' # <<>>
              /\ typed_char_buffer'[Len(typed_char_buffer')]
                   = [char |-> to_char(NewInput.key), ts |-> LastInput.ts,
                      duration |-> PairDelta]
         ELSE /\ Written = <<KeyClickRecord(LastInput, NewInput)>>
              /\ typed_char_buffer' = <<>>
    ]_vars

(* A key_click of exactly KEY_CLICK_MAX_DELTA, then the same key released  *)
(* one tick later than that: press and release on their own.               *)
C4_Witness ==
    /\ Len(input) = 4
    /\ Len(output) = 3
    /\ output[1].type = "key_click" /\ output[1].duration = KEY_CLICK_MAX_DELTA
    /\ output[2] = input[3]
    /\ output[3] = input[4]
    /\ input[4].ts - input[3].ts = KEY_CLICK_MAX_DELTA + 1

---------------------------------------------------------------------------
(* A character key as the specification has it: one printable character,   *)
(* or the space key.                                                       *)
IsCharacterKey(k) == k = KeySpace \/ Len(k) = 1

(* The input is n clicks, each a press and then its release *)
IsClickRun(seq) ==
    /\ Len(seq) >= 2
    /\ Len(seq) % 2 = 0
    /\ \A i \in 1..(Len(seq) \div 2) :
          LET p == seq[2 * i - 1]
              r == seq[2 * i]
          IN  /\ IsRecordOf(p, "keyboard", "press")
              /\ IsRecordOf(r, "keyboard", "release")
              /\ p.key = r.key
              /\ IsCharacterKey(p.key)
              /\ r.ts - p.ts <= KEY_CLICK_MAX_DELTA
              /\ r.ts >= p.ts

PressChars(seq) == Join([i \in 1..(Len(seq) \div 2) |-> to_char(seq[2 * i - 1].key)])

(* C5  n character-key clicks whose presses are each at most               *)
(* TYPING_MAX_INTERKEY_DELTA after the press before, each released within  *)
(* KEY_CLICK_MAX_DELTA, then finalize: the output is one typed_string      *)
(* record with the n characters in press order and num_chars = n.          *)
C5_TypedStringMerge ==
    (/\ closed
     /\ IsClickRun(input)
     /\ \A i \in 2..(Len(input) \div 2) :
           input[2 * i - 1].ts - input[2 * i - 3].ts <= TYPING_MAX_INTERKEY_DELTA)
    => /\ Len(output) = 1
       /\ output[1].type = "typed_string"
       /\ output[1].string = PressChars(input)
       /\ output[1].num_chars = Len(input) \div 2

---------------------------------------------------------------------------
(* The compressor after the events of seq, from construction *)
RECURSIVE Replay(_)
Replay(seq) ==
    IF seq = <<>> THEN InitState
    ELSE process_event(Replay(SubSeq(seq, 1, Len(seq) - 1)), seq[Len(seq)])

TypedStrings(seq) ==
    LET IsTyped(r) == r.type = "typed_string"
        recs == SelectSeq(seq, IsTyped)
    IN  [i \in 1..Len(recs) |-> recs[i].string]

BufferChars(buf) == Join([i \in 1..Len(buf) |-> buf[i].char])

---------------------------------------------------------------------------
(* C7  finalize with a non-empty typed-character buffer writes exactly one *)
(* typed_string record, whose num_chars is the number of buffered          *)
(* characters and whose duration is the last buffered press time plus its  *)
(* click duration, minus the first buffered press time.                    *)
C7_FinalizeTypedRun ==
    [][(FinalizeStep /\ typed_char_buffer # <<>>) =>
         LET IsTyped(r) == r.type = "typed_string"
             recs == SelectSeq(Written, IsTyped)
             first == typed_char_buffer[1]
             last == typed_char_buffer[Len(typed_char_buffer)]
         IN  /\ Len(recs) = 1
             /\ recs[1].num_chars = Len(typed_char_buffer)
             /\ recs[1].duration = (last.ts + last.duration) - first.ts
    ]_vars

---------------------------------------------------------------------------
(* A step that runs process_event on one more event *)
ProcessStep == Len(input') = Len(input) + 1

(* C3  Within one process_event call the records of the buffers flushed    *)
(* because of the incoming event are written before every record that      *)
(* classifying the event writes, after what the file already held; a mouse *)
(* event that finds typed characters buffered writes their typed_string    *)
(* first, before its mouse_click.                                          *)
C3_FlushBeforeClassification ==
    [][ProcessStep =>
         /\ Len(output') >= Len(output)
         /\ SubSeq(output', 1, Len(output)) = output
         /\ \A i, j \in 1..Len(Written) :
               (i < j /\ IsFlushRecord(Written[j])) => IsFlushRecord(Written[i])
         /\ (typed_char_buffer # <<>> /\ NewInput.device = "mouse") =>
               /\ Written # <<>>
               /\ Written[1].type = "typed_string"
               /\ Written[1].string = BufferChars(typed_char_buffer)
               /\ \A i \in 2..Len(Written) : Written[i].type # "typed_string"
    ]_vars

(* "a" typed between the press and the release of a mouse button: the      *)
(* release writes typed_string, then mouse_click.                          *)
C3_Witness ==
    /\ Len(input) = 4
    /\ IsClickEvent(input[1], "Button.left", 0, 0, TRUE)
    /\ IsClickEvent(input[4], "Button.left", 0, 0, FALSE)
    /\ Len(output) = 2
    /\ output[1].type = "typed_string"
    /\ output[2].type = "mouse_click"

---------------------------------------------------------------------------
(* Runs of gesture samples (ty is "move" or "scroll") in the input:        *)
(* input[i..j] starts a run when no sample of that kind is buffered before *)
(* it, and has been flushed when finalize has run or the next event is of  *)
(* another kind or more than MOUSE_SEQUENCE_MAX_DELTA later.               *)
IsGesture(e, ty) == IsRecordOf(e, "mouse", ty)

Abs(n) == IF n < 0 THEN -n ELSE n

RunStarts(i, ty) ==
    \/ i = 1
    \/ ~IsGesture(input[i - 1], ty)
    \/ input[i].ts - input[i - 1].ts > MOUSE_SEQUENCE_MAX_DELTA

RunFlushed(j, ty) ==
    IF j = Len(input) THEN closed
    ELSE \/ ~IsGesture(input[j + 1], ty)
         \/ input[j + 1].ts - input[j].ts > MOUSE_SEQUENCE_MAX_DELTA

(* consecutive samples at most MOUSE_SEQUENCE_MAX_DELTA apart *)
RunClose(i, j, ty) ==
    /\ \A k \in i..j : IsGesture(input[k], ty)
    /\ \A k \in i..(j - 1) :
          Abs(input[k + 1].ts - input[k].ts) <= MOUSE_SEQUENCE_MAX_DELTA

(* the samples the compressor keeps in one buffer: a sample with an        *)
(* earlier timestamp than the last one continues the run too               *)
RunKept(i, j, ty) ==
    /\ \A k \in i..j : IsGesture(input[k], ty)
    /\ \A k \in i..(j - 1) :
          input[k + 1].ts - input[k].ts <= MOUSE_SEQUENCE_MAX_DELTA

Positions == 1..Len(input)

FlushedRuns(ty) ==
    {ij \in Positions \X Positions :
        /\ ij[1] <= ij[2]
        /\ RunStarts(ij[1], ty)
        /\ RunKept(ij[1], ij[2], ty)
        /\ RunFlushed(ij[2], ty)}

CondensedMoveOf(i, j) ==
    [ts |-> input[i].ts, device |-> "mouse", type |-> "condensed_move",
     start_x |-> input[i].x, start_y |-> input[i].y,
     end_x |-> input[j].x, end_y |-> input[j].y,
     duration |-> input[j].ts - input[i].ts,
     num_moves |-> j - i + 1]

CondensedScrollOf(i, j) ==
    [ts |-> input[i].ts, device |-> "mouse", type |-> "condensed_scroll",
     total_dx |-> Sum([k \in 1..(j - i + 1) |-> input[i + k - 1].dx]),
     total_dy |-> Sum([k \in 1..(j - i + 1) |-> input[i + k - 1].dy]),
     duration |-> input[j].ts - input[i].ts,
     num_scrolls |-> j - i + 1]

(* C8  n >= 1 consecutive mouse moves, each at most                        *)
(* MOUSE_SEQUENCE_MAX_DELTA from the one before, followed by a flush, are  *)
(* in the output as the condensed_move record with ts and start of the     *)
(* first sample, end of the last, duration last.ts - first.ts and          *)
(* num_moves = n; and the output holds one condensed_move per flushed run. *)
C8_GestureCondensation ==
    /\ \A i, j \in Positions :
          (/\ i <= j
           /\ RunStarts(i, "move")
           /\ RunClose(i, j, "move")
           /\ RunFlushed(j, "move"))
          => NumEqual(output, CondensedMoveOf(i, j)) >= 1
    /\ NumOfType(output, "condensed_move") = Cardinality(FlushedRuns("move"))

(* four moves, 5 ticks apart, from (0,0) to (1,2) *)
C8_Witness ==
    /\ closed
    /\ Len(input) = 4
    /\ \A k \in 1..3 : input[k + 1].ts - input[k].ts = MOUSE_SEQUENCE_MAX_DELTA
    /\ output = <<CondensedMoveOf(1, 4)>>
    /\ output[1].start_x # output[1].end_x
    /\ output[1].num_moves = 4

(* C9  n >= 1 consecutive scrolls, each at most MOUSE_SEQUENCE_MAX_DELTA   *)
(* from the one before, followed by a flush, are in the output as the      *)
(* condensed_scroll record with total_dx and total_dy the sums of the      *)
(* samples' dx and dy, duration last.ts - first.ts and num_scrolls = n;    *)
(* and the output holds one condensed_scroll per flushed run.              *)
C9_ScrollAccumulation ==
    /\ \A i, j \in Positions :
          (/\ i <= j
           /\ RunStarts(i, "scroll")
           /\ RunClose(i, j, "scroll")
           /\ RunFlushed(j, "scroll"))
          => NumEqual(output, CondensedScrollOf(i, j)) >= 1
    /\ NumOfType(output, "condensed_scroll") = Cardinality(FlushedRuns("scroll"))

(* dx = 1 four times in a row *)
C9_Witness ==
    /\ closed
    /\ Len(input) = 4
    /\ \A k \in 1..4 : IsGesture(input[k], "scroll") /\ input[k].dx = 1
    /\ Len(output) = 1
    /\ output[1].type = "condensed_scroll"
    /\ output[1].total_dx = 4
    /\ output[1].num_scrolls = 4

---------------------------------------------------------------------------
(* C10  Degrade, don't fail: as long as the events handed in are well      *)
(* formed, no call raises, whatever their order and timestamps, so the     *)
(* compressor takes the next event.                                        *)
AllWellFormed == \A i \in 1..Len(input) : WellFormed(input[i])

C10_NeverRaises == AllWellFormed => ~error

(* a press, the same press again with an earlier timestamp, and a release  *)
(* more than KEY_CLICK_MAX_DELTA after it: three calls, nothing raised     *)
C10_Witness ==
    /\ ~error
    /\ ~closed
    /\ Len(input) = 3
    /\ AllWellFormed
    /\ input[2].ts < input[1].ts
    /\ NumOfType(output, "press") = 2
    /\ NumOfType(output, "release") = 1

---------------------------------------------------------------------------
(* A step that hands a keyboard event of type ty to process_event *)
KeyStep(ty) ==
    /\ ProcessStep
    /\ IsRecordOf(NewInput, "keyboard", ty)
    /\ Has(NewInput, "key")

NumPending(d, id) == Cardinality({i \in 1..Len(d) : d[i].id = id})

(* C11  A keyboard release for a key that has no pending press is written  *)
(* by that call as one record equal to the event, the only record of the   *)
(* call besides those of buffers it flushed, and the call leaves the       *)
(* pending-press table as it was.                                          *)
C11_UnmatchedRelease ==
    [][(KeyStep("release")
        /\ ~InPending(pending_events, KeyboardId(NewInput.key)))
       => /\ WrittenForEvent = <<NewInput>>
          /\ pending_events' = pending_events
    ]_vars

(* Ctrl is held; "a" is released without having been pressed *)
C11_Witness ==
    /\ Len(input) = 2
    /\ input[1] = KeyEv(input[1].ts, "press", KeyCtrl)
    /\ input[2] = KeyEv(input[2].ts, "release", KeyA)
    /\ output = <<input[2]>>
    /\ Len(pending_events) = 1
    /\ pending_events[1].ev = input[1]

---------------------------------------------------------------------------
(* C12  A press for a key that already has a pending press: the call       *)
(* writes the stale press as it came, and afterwards the pending-press     *)
(* table holds one entry for the key, the new press.                       *)
C12_KeyboardRePress ==
    [][(KeyStep("press")
        /\ InPending(pending_events, KeyboardId(NewInput.key)))
       => LET id == KeyboardId(NewInput.key)
          IN  /\ WrittenForEvent = <<PendingGet(pending_events, id)>>
              /\ NumPending(pending_events', id) = 1
              /\ PendingGet(pending_events', id) = NewInput
              /\ Len(pending_events') = Len(pending_events)
    ]_vars

(* "a" pressed twice: the first press is in the file, the second pending *)
C12_Witness ==
    /\ Len(input) = 2
    /\ input[1] = KeyEv(input[1].ts, "press", KeyA)
    /\ input[2] = KeyEv(input[2].ts, "press", KeyA)
    /\ input[1] # input[2]
    /\ output = <<input[1]>>
    /\ Len(pending_events) = 1
    /\ pending_events[1].ev = input[2]

---------------------------------------------------------------------------
(* C13  A keyboard release that matches a pending press more than          *)
(* KEY_CLICK_MAX_DELTA older: the call writes the press as it came and     *)
(* then the release as it came, no key_click; it appends nothing to the    *)
(* typed-character buffer, also for a character key; and the press is no   *)
(* longer pending.                                                         *)
C13_SlowPair ==
    [][(KeyStep("release")
        /\ InPending(pending_events, KeyboardId(NewInput.key))
        /\ NewInput.ts - PendingGet(pending_events, KeyboardId(NewInput.key)).ts
             > KEY_CLICK_MAX_DELTA)
       => LET id == KeyboardId(NewInput.key)
          IN  /\ WrittenForEvent = <<PendingGet(pending_events, id), NewInput>>
              /\ \A i \in 1..Len(Written) : Written[i].type # "key_click"
              /\ typed_char_buffer' \in {typed_char_buffer, <<>>}
              /\ ~InPending(pending_events', id)
              /\ Len(pending_events') = Len(pending_events) - 1
    ]_vars

(* A character key held across the click of another character key and     *)
(* released after more than KEY_CLICK_MAX_DELTA: its press and release are *)
(* written and the buffer still holds only the other character.            *)
C13_Witness ==
    /\ Len(input) = 4
    /\ IsRecordOf(input[1], "keyboard", "press")
    /\ IsRecordOf(input[4], "keyboard", "release")
    /\ input[4].key = input[1].key
    /\ is_char_key(input[1].key)
    /\ input[4].ts - input[1].ts > KEY_CLICK_MAX_DELTA
    /\ output = <<input[1], input[4]>>
    /\ Len(typed_char_buffer) = 1
    /\ typed_char_buffer[1].char = to_char(input[2].key)
    /\ pending_events = <<>>

---------------------------------------------------------------------------
(* A step that hands a mouse button press (prs) or release to process_event *)
ButtonStep(prs) ==
    /\ ProcessStep
    /\ IsRecordOf(NewInput, "mouse", "click")
    /\ {"x", "y", "button", "pressed"} \subseteq DOMAIN NewInput
    /\ NewInput.pressed = prs

NewMouseId == MouseId(NewInput.button, NewInput.x, NewInput.y)

MouseClickRecord(press, release) ==
    [ts |-> press.ts, device |-> "mouse", type |-> "mouse_click",
     x |-> release.x, y |-> release.y, button |-> release.button,
     duration |-> release.ts - press.ts]

(* C14  A mouse release that matches a pending mouse press writes one      *)
(* mouse_click record (ts of the press, x and y of the release, the        *)
(* button, duration = release.ts - press.ts) when the duration is at most  *)
(* MOUSE_CLICK_MAX_DELTA, and the press and then the release as they came  *)
(* when it is more; a release without a matching pending press is written  *)
(* alone as it came.                                                       *)
C14_MouseClickClassification ==
    [][ButtonStep(FALSE) =>
         IF InPending(pending_events, NewMouseId)
         THEN LET press == PendingGet(pending_events, NewMouseId)
              IN  IF NewInput.ts - press.ts <= MOUSE_CLICK_MAX_DELTA
                  THEN WrittenForEvent = <<MouseClickRecord(press, NewInput)>>
                  ELSE WrittenForEvent = <<press, NewInput>>
         ELSE WrittenForEvent = <<NewInput>>
    ]_vars

(* A button clicked in exactly MOUSE_CLICK_MAX_DELTA and then released    *)
(* once more: mouse_click, then the second release on its own.             *)
C14_Witness ==
    /\ Len(input) = 3
    /\ Len(output) = 2
    /\ output[1] = MouseClickRecord(input[1], input[2])
    /\ output[1].duration = MOUSE_CLICK_MAX_DELTA
    /\ output[2] = input[3]
    /\ input[3].pressed = FALSE
    /\ pending_events = <<>>

---------------------------------------------------------------------------
(* The kinds of record finalize has to flush, in the order of its calls,   *)
(* and the presses that are pending, in the order of the table.            *)
FinalizeFlushTypes ==
    (IF typed_char_buffer # <<>> THEN <<"typed_string">> ELSE <<>>)
    \o (IF mouse_move_buffer # <<>> THEN <<"condensed_move">> ELSE <<>>)
    \o (IF mouse_scroll_buffer # <<>> THEN <<"condensed_scroll">> ELSE <<>>)

PendingPresses == [i \in 1..Len(pending_events) |-> pending_events[i].ev]

(* Where the input holds event e for the last time *)
LastPos(e) ==
    CHOOSE i \in 1..Len(input) :
        input[i] = e /\ \A j \in (i + 1)..Len(input) : input[j] # e

(* C15  finalize writes the typed_string flush, then the condensed_move    *)
(* flush, then the condensed_scroll flush, then every press still pending  *)
(* (keyboard and mouse alike) as it came, in the order in which the        *)
(* presses were put into the pending table, which is the order in which    *)
(* they came in.                                                           *)
C15_FinalizeOrder ==
    [][FinalizeStep =>
         LET k == Len(FinalizeFlushTypes)
         IN  /\ Len(Written) = k + Len(pending_events)
             /\ [i \in 1..k |-> Written[i].type] = FinalizeFlushTypes
             /\ SubSeq(Written, k + 1, Len(Written)) = PendingPresses
             /\ \A i, j \in 1..Len(pending_events) :
                   i < j => LastPos(pending_events[i].ev)
                              < LastPos(pending_events[j].ev)
    ]_vars

(* A mouse button pressed, then Ctrl pressed, then a move: finalize writes *)
(* the condensed_move, the mouse press, the key press.                     *)
C15_Witness ==
    /\ closed
    /\ Len(input) = 3
    /\ IsClickEvent(input[1], "Button.left", 0, 0, TRUE)
    /\ IsKeyEvent(input[2], "press", KeyCtrl)
    /\ Len(output) = 3
    /\ output[1].type = "condensed_move"
    /\ output[2] = input[1]
    /\ output[3] = input[2]

---------------------------------------------------------------------------
(* The events that continue a buffer: a keyboard event on a character key  *)
(* for the typed-character buffer, a move and a scroll for the other two.  *)
IsCharKeyEvent(e) == e.device = "keyboard" /\ is_char_key(EventGetKey(e))

(* C16  Every process_event call, whatever the time since the last         *)
(* buffered element: an event that is not a keyboard event on a character  *)
(* key flushes the typed-character buffer first, an event that is not a    *)
(* mouse move flushes the move buffer, an event that is not a mouse scroll *)
(* flushes the scroll buffer; so after the call a buffer is non-empty only *)
(* if the event was of the buffer's own kind.                              *)
C16_TypeChangeFlush ==
    [][ProcessStep =>
         /\ (typed_char_buffer # <<>> /\ ~IsCharKeyEvent(NewInput)) =>
               /\ Written # <<>>
               /\ Written[1].type = "typed_string"
               /\ Written[1].string = BufferChars(typed_char_buffer)
         /\ (mouse_move_buffer # <<>> /\ ~IsGesture(NewInput, "move")) =>
               /\ Written # <<>>
               /\ Written[1].type = "condensed_move"
               /\ Written[1].num_moves = Len(mouse_move_buffer)
         /\ (mouse_scroll_buffer # <<>> /\ ~IsGesture(NewInput, "scroll")) =>
               /\ Written # <<>>
               /\ Written[1].type = "condensed_scroll"
               /\ Written[1].num_scrolls = Len(mouse_scroll_buffer)
         /\ typed_char_buffer' # <<>> => IsCharKeyEvent(NewInput)
         /\ mouse_move_buffer' # <<>> => IsGesture(NewInput, "move")
         /\ mouse_scroll_buffer' # <<>> => IsGesture(NewInput, "scroll")
    ]_vars

(* A move, and a scroll less than MOUSE_SEQUENCE_MAX_DELTA after it: the   *)
(* move is flushed although no threshold has passed.                       *)
C16_Witness ==
    /\ Len(input) = 2
    /\ IsGesture(input[1], "move")
    /\ IsGesture(input[2], "scroll")
    /\ input[2].ts - input[1].ts < MOUSE_SEQUENCE_MAX_DELTA
    /\ input[2].ts > input[1].ts
    /\ Len(output) = 1
    /\ output[1].type = "condensed_move"
    /\ mouse_move_buffer = <<>>
    /\ mouse_scroll_buffer = <<input[2]>>

---------------------------------------------------------------------------
(* How far the incoming event is from a buffer's last-timestamp tracker *)
TypedGap == NewInput.ts - last_typed_char_ts
MoveGap == NewInput.ts - last_mouse_move_ts
ScrollGap == NewInput.ts - last_mouse_scroll_ts

(* C17  Every process_event call, before the event is classified: a        *)
(* non-empty buffer whose tracker the event's timestamp exceeds by more    *)
(* than the threshold (TYPING_MAX_INTERKEY_DELTA for typed characters,     *)
(* MOUSE_SEQUENCE_MAX_DELTA for moves and scrolls) is flushed, its record  *)
(* being the first of the call; an event of the buffer's kind at a gap of  *)
(* exactly the threshold, or less, flushes nothing and the buffer keeps    *)
(* its elements.                                                           *)
C17_TimeoutFlush ==
    [][ProcessStep =>
         /\ (typed_char_buffer # <<>> /\ TypedGap > TYPING_MAX_INTERKEY_DELTA) =>
               /\ Written # <<>>
               /\ Written[1].type = "typed_string"
               /\ Written[1].string = BufferChars(typed_char_buffer)
         /\ (mouse_move_buffer # <<>> /\ MoveGap > MOUSE_SEQUENCE_MAX_DELTA) =>
               /\ Written # <<>>
               /\ Written[1].type = "condensed_move"
               /\ Written[1].num_moves = Len(mouse_move_buffer)
         /\ (mouse_scroll_buffer # <<>> /\ ScrollGap > MOUSE_SEQUENCE_MAX_DELTA) =>
               /\ Written # <<>>
               /\ Written[1].type = "condensed_scroll"
               /\ Written[1].num_scrolls = Len(mouse_scroll_buffer)
         /\ (/\ typed_char_buffer # <<>>
             /\ IsCharKeyEvent(NewInput)
             /\ TypedGap <= TYPING_MAX_INTERKEY_DELTA) =>
               /\ Written = <<>>
               /\ Len(typed_char_buffer') >= Len(typed_char_buffer)
               /\ SubSeq(typed_char_buffer', 1, Len(typed_char_buffer))
                    = typed_char_buffer
         /\ (/\ mouse_move_buffer # <<>>
             /\ IsGesture(NewInput, "move")
             /\ MoveGap <= MOUSE_SEQUENCE_MAX_DELTA) =>
               /\ Written = <<>>
               /\ mouse_move_buffer' = Append(mouse_move_buffer, NewInput)
         /\ (/\ mouse_scroll_buffer # <<>>
             /\ IsGesture(NewInput, "scroll")
             /\ ScrollGap <= MOUSE_SEQUENCE_MAX_DELTA) =>
               /\ Written = <<>>
               /\ mouse_scroll_buffer' = Append(mouse_scroll_buffer, NewInput)
    ]_vars

(* Three moves: the second exactly MOUSE_SEQUENCE_MAX_DELTA after the     *)
(* first joins its run, the third one tick more after the second flushes  *)
(* the two and starts a run of its own.                                   *)
C17_Witness ==
    /\ Len(input) = 3
    /\ \A k \in 1..3 : IsGesture(input[k], "move")
    /\ input[2].ts - input[1].ts = MOUSE_SEQUENCE_MAX_DELTA
    /\ input[3].ts - input[2].ts = MOUSE_SEQUENCE_MAX_DELTA + 1
    /\ output = <<CondensedMoveOf(1, 2)>>
    /\ mouse_move_buffer = <<input[3]>>

---------------------------------------------------------------------------
(* input[i..i+3] are two clicks of character keys, one after the other:    *)
(* press, release, press, release, each released within                    *)
(* KEY_CLICK_MAX_DELTA, the presses at most TYPING_MAX_INTERKEY_DELTA      *)
(* apart.                                                                  *)
IsClickPair(i) ==
    /\ i + 3 <= Len(input)
    /\ IsClickRun(SubSeq(input, i, i + 3))
    /\ input[i + 2].ts >= input[i].ts
    /\ input[i + 2].ts - input[i].ts <= TYPING_MAX_INTERKEY_DELTA

(* C18  Two character-key clicks processed one after the other, each       *)
(* released within KEY_CLICK_MAX_DELTA, whose presses are at most          *)
(* TYPING_MAX_INTERKEY_DELTA apart, are in the same typed_string record,   *)
(* whenever the second key is released.                                    *)
C18_PressBasedGap ==
    closed =>
      \A i \in 1..Len(input) :
         IsClickPair(i) =>
           \E j \in 1..Len(output) :
              /\ output[j].type = "typed_string"
              /\ Occurrences(output[j].string,
                             to_char(input[i].key) \o to_char(input[i + 2].key)) >= 1

---------------------------------------------------------------------------
(* A step that hands in the release of a key whose press is pending and at *)
(* most KEY_CLICK_MAX_DELTA older: a click.                                *)
NewKeyId == KeyboardId(NewInput.key)

KeyClickStep ==
    /\ KeyStep("release")
    /\ InPending(pending_events, NewKeyId)
    /\ NewInput.ts - PendingGet(pending_events, NewKeyId).ts <= KEY_CLICK_MAX_DELTA

(* C19  The click of a key that is not a character key (not one printable  *)
(* character and not Key.space): after the call the typed-character buffer *)
(* is empty, and the call writes one key_click record with the key, the    *)
(* press timestamp and duration = release.ts - press.ts, as its last       *)
(* record, after the typed_string it may have flushed.                     *)
C19_NonCharKeyClick ==
    [][(KeyClickStep /\ ~IsCharacterKey(NewInput.key)) =>
         /\ typed_char_buffer' = <<>>
         /\ WrittenForEvent
              = <<KeyClickRecord(PendingGet(pending_events, NewKeyId), NewInput)>>
         /\ Written[Len(Written)].type = "key_click"
    ]_vars

---------------------------------------------------------------------------
(* The character the specification stores for a character key *)
StoredChar(k) == IF k = KeySpace THEN <<" ">> ELSE k

(* C20  The click of a character key appends one element, made of the      *)
(* character, the press timestamp and the duration, at the end of the      *)
(* typed-character buffer, which before that element is what it was or has *)
(* been flushed; Key.space is stored as a space and every other character  *)
(* key as itself; no key_click record is written.                          *)
C20_CharKeyClick ==
    [][(KeyClickStep /\ IsCharacterKey(NewInput.key)) =>
         LET press == PendingGet(pending_events, NewKeyId)
             n == Len(typed_char_buffer')
         IN  /\ n >= 1
             /\ typed_char_buffer'[n]
                  = [char |-> StoredChar(NewInput.key), ts |-> press.ts,
                     duration |-> NewInput.ts - press.ts]
             /\ SubSeq(typed_char_buffer', 1, n - 1) \in {typed_char_buffer, <<>>}
             /\ \A i \in 1..Len(Written) : Written[i].type # "key_click"
    ]_vars

(* "a" and then the space key clicked: the buffer holds "a" and " " *)
C20_Witness ==
    /\ Len(input) = 4
    /\ IsClickRun(input)
    /\ input[3].key = KeySpace
    /\ output = <<>>
    /\ Len(typed_char_buffer) = 2
    /\ typed_char_buffer[1].char = KeyA
    /\ typed_char_buffer[2]
         = [char |-> <<" ">>, ts |-> input[3].ts,
            duration |-> input[4].ts - input[3].ts]

---------------------------------------------------------------------------
(* C21  In every reachable state, each element of the typed-character      *)
(* buffer has a press timestamp at most TYPING_MAX_INTERKEY_DELTA above    *)
(* the press timestamp of the element appended just before it.             *)
C21_TypedBufferGap ==
    \A i \in 1..(Len(typed_char_buffer) - 1) :
       typed_char_buffer[i + 1].ts - typed_char_buffer[i].ts
          <= TYPING_MAX_INTERKEY_DELTA

(* Two characters clicked one after the other are both in the buffer, the  *)
(* second pressed later than the first.                                    *)
C21_Witness ==
    /\ Len(input) = 4
    /\ IsClickRun(input)
    /\ output = <<>>
    /\ Len(typed_char_buffer) = 2
    /\ typed_char_buffer[1].ts = input[1].ts
    /\ typed_char_buffer[2].ts = input[3].ts
    /\ typed_char_buffer[2].ts > typed_char_buffer[1].ts

---------------------------------------------------------------------------
(* The input's timestamps never step back *)
InOrder(seq) == \A i \in 1..(Len(seq) - 1) : seq[i].ts <= seq[i + 1].ts

(* Every sample of buf is at most MOUSE_SEQUENCE_MAX_DELTA later than the  *)
(* sample before it, and not earlier when the input came in order.         *)
GapsWithin(buf) ==
    \A i \in 1..(Len(buf) - 1) :
       /\ buf[i + 1].ts - buf[i].ts <= MOUSE_SEQUENCE_MAX_DELTA
       /\ InOrder(input) => buf[i + 1].ts >= buf[i].ts

(* A step that hands in a sample of kind ty more than                      *)
(* MOUSE_SEQUENCE_MAX_DELTA after the last sample of buf.                  *)
FarSampleStep(buf, ty) ==
    /\ ProcessStep
    /\ IsGesture(NewInput, ty)
    /\ buf # <<>>
    /\ NewInput.ts - buf[Len(buf)].ts > MOUSE_SEQUENCE_MAX_DELTA

---------------------------------------------------------------------------
(* The typed_string record the specification gives for the buffer buf *)
TypedStringOf(buf) ==
    [ts |-> buf[1].ts,
     device |-> "keyboard",
     type |-> "typed_string",
     string |-> BufferChars(buf),
     duration |-> (buf[Len(buf)].ts + buf[Len(buf)].duration) - buf[1].ts,
     num_chars |-> Len(buf)]

(* C23  Every typed_string record a call writes is the flush of the typed- *)
(* character buffer the call found: string = the buffered characters in    *)
(* append order, ts = the first element's press time, duration = (last     *)
(* element's press time + its duration) - first element's press time,      *)
(* num_chars = the number of buffered elements; a call that finds the      *)
(* buffer empty writes no typed_string.                                    *)
C23_TypedStringFields ==
    [][\A i \in 1..Len(Written) :
          Written[i].type = "typed_string" =>
             /\ typed_char_buffer # <<>>
             /\ Written[i] = TypedStringOf(typed_char_buffer)
    ]_vars

---------------------------------------------------------------------------
(* A buffer and its last-timestamp tracker agree: 0 for an empty buffer,   *)
(* the timestamp of the last element otherwise.                            *)
TrackerAgrees(buf, tracker) ==
    IF buf = <<>> THEN tracker = 0 ELSE tracker = buf[Len(buf)].ts

(* C24  In every reachable state each of the three buffers agrees with its *)
(* tracker (for the typed buffer the element's timestamp is the press      *)
(* timestamp), and each of the three flush procedures, run in that state,  *)
(* leaves its buffer empty and its tracker 0, whether the buffer held      *)
(* anything or not.                                                        *)
C24_FlushResets ==
    /\ TrackerAgrees(typed_char_buffer, last_typed_char_ts)
    /\ TrackerAgrees(mouse_move_buffer, last_mouse_move_ts)
    /\ TrackerAgrees(mouse_scroll_buffer, last_mouse_scroll_ts)
    /\ LET typed == flush_typed_char_buffer(State)
           moved == flush_mouse_move_buffer(State)
           scrolled == flush_mouse_scroll_buffer(State)
       IN  /\ typed.typed_char_buffer = <<>> /\ typed.last_typed_char_ts = 0
           /\ moved.mouse_move_buffer = <<>> /\ moved.last_mouse_move_ts = 0
           /\ scrolled.mouse_scroll_buffer = <<>>
           /\ scrolled.last_mouse_scroll_ts = 0

(* A character has been typed and flushed by a move that follows it: the   *)
(* typed buffer is empty with tracker 0, the move buffer holds the move    *)
(* and its tracker the move's timestamp.                                   *)
C24_Witness ==
    /\ Len(input) = 3
    /\ IsGesture(input[3], "move")
    /\ Len(output) = 1
    /\ output[1].type = "typed_string"
    /\ typed_char_buffer = <<>>
    /\ last_typed_char_ts = 0
    /\ mouse_move_buffer = <<input[3]>>
    /\ last_mouse_move_ts = input[3].ts
    /\ last_mouse_move_ts # 0

---------------------------------------------------------------------------
(* The pending presses of mouse button b, wherever they were made *)
PendingOfButton(d, b) ==
    {i \in 1..Len(d) : d[i].id[1] = "mouse" /\ d[i].id[2] = b}

PendingOfKey(d, k) == {i \in 1..Len(d) : d[i].id = KeyboardId(k)}

(* C25  In every reachable state at most one press is pending per keyboard *)
(* key and at most one per mouse button; and a press of a mouse button     *)
(* that already has a pending press writes that stale press and replaces   *)
(* it.                                                                     *)
C25_SinglePendingPress ==
    /\ [](/\ \A k \in AllKeys : Cardinality(PendingOfKey(pending_events, k)) <= 1
          /\ \A b \in Buttons :
                Cardinality(PendingOfButton(pending_events, b)) <= 1)
    /\ [][(ButtonStep(TRUE)
           /\ PendingOfButton(pending_events, NewInput.button) # {})
          => /\ \E i \in PendingOfButton(pending_events, NewInput.button) :
                   WrittenForEvent = <<pending_events[i].ev>>
             /\ \A i \in PendingOfButton(pending_events', NewInput.button) :
                   pending_events'[i].ev = NewInput
       ]_vars

---------------------------------------------------------------------------
IsMousePress(e) ==
    IsRecordOf(e, "mouse", "click") /\ Has(e, "pressed") /\ e.pressed

SameButtonAndPlace(e, f) == e.button = f.button /\ e.x = f.x /\ e.y = f.y

StillPending(e) == \E i \in 1..Len(pending_events') : pending_events'[i].ev = e

(* The call has paired the release it was given with the pending press p:  *)
(* p is no longer pending and the call wrote their mouse_click, or p and   *)
(* the release one after the other.                                        *)
PairedWith(p) ==
    /\ ~StillPending(p)
    /\ WrittenForEvent \in {<<MouseClickRecord(p, NewInput)>>, <<p, NewInput>>}

---------------------------------------------------------------------------
NonEmptyBuffers ==
    (IF typed_char_buffer # <<>> THEN 1 ELSE 0)
    + (IF mouse_move_buffer # <<>> THEN 1 ELSE 0)
    + (IF mouse_scroll_buffer # <<>> THEN 1 ELSE 0)

(* C27  In every state reached by process_event and finalize calls at most *)
(* one of the typed-character buffer, the mouse-move buffer and the        *)
(* mouse-scroll buffer is non-empty, and none after finalize.              *)
C27_BufferMutualExclusion ==
    /\ NonEmptyBuffers <= 1
    /\ closed => NonEmptyBuffers = 0

(* A scroll and then a character typed less than MOUSE_SEQUENCE_MAX_DELTA  *)
(* later: the scroll has been flushed, the character is buffered.          *)
C27_Witness ==
    /\ Len(input) = 3
    /\ IsGesture(input[1], "scroll")
    /\ input[2].ts - input[1].ts < MOUSE_SEQUENCE_MAX_DELTA
    /\ input[2].ts > input[1].ts
    /\ Len(output) = 1
    /\ output[1].type = "condensed_scroll"
    /\ typed_char_buffer # <<>>
    /\ mouse_move_buffer = <<>>
    /\ mouse_scroll_buffer = <<>>

---------------------------------------------------------------------------
(* The compressor when the call on the incoming event reaches              *)
(* classification: after the type-change and the timeout flushes.          *)
AtClassification == FlushForEvent(State, NewInput)

(* The call takes the flush-and-start-new-buffer branch of lines 178-185:  *)
(* a character click whose press is more than TYPING_MAX_INTERKEY_DELTA    *)
(* after the tracker of a buffer that is not empty.                        *)
InnerTypedSplit ==
    /\ KeyClickStep
    /\ is_char_key(NewInput.key)
    /\ AtClassification.typed_char_buffer # <<>>
    /\ PendingGet(pending_events, NewKeyId).ts
         - AtClassification.last_typed_char_ts > TYPING_MAX_INTERKEY_DELTA

(* The branches of lines 231-233 and 245-247 *)
InnerMoveSplit ==
    /\ IsGesture(NewInput, "move")
    /\ AtClassification.mouse_move_buffer # <<>>
    /\ NewInput.ts - AtClassification.last_mouse_move_ts > MOUSE_SEQUENCE_MAX_DELTA

InnerScrollSplit ==
    /\ IsGesture(NewInput, "scroll")
    /\ AtClassification.mouse_scroll_buffer # <<>>
    /\ NewInput.ts - AtClassification.last_mouse_scroll_ts
         > MOUSE_SEQUENCE_MAX_DELTA

(* C28  With input timestamps that never step back, no process_event call *)
(* takes a flush-and-start-new-buffer branch of the classification: when   *)
(* classification finds a buffer non-empty, the gap test passes; a run is  *)
(* split on a gap by the timeout flush before classification.              *)
C28_InnerGapChecksPreempted ==
    [][(ProcessStep /\ InOrder(input')) =>
          /\ ~InnerTypedSplit
          /\ ~InnerMoveSplit
          /\ ~InnerScrollSplit
    ]_vars

(* Two clicks of a character key, the second pressed more than             *)
(* TYPING_MAX_INTERKEY_DELTA after the first: the first has been flushed   *)
(* when the second press came in, and the second is alone in the buffer.   *)
C28_Witness ==
    /\ Len(input) = 4
    /\ InOrder(input)
    /\ IsClickRun(input)
    /\ input[3].ts - input[1].ts > TYPING_MAX_INTERKEY_DELTA
    /\ Len(output) = 1
    /\ output[1].type = "typed_string"
    /\ Len(typed_char_buffer) = 1
    /\ typed_char_buffer[1].ts = input[3].ts

---------------------------------------------------------------------------
(* The duration of an output record lies within the bounds of its type *)
DurationInBounds(r) ==
    CASE r.type = "key_click" ->
           0 <= r.duration /\ r.duration <= KEY_CLICK_MAX_DELTA
      [] r.type = "mouse_click" ->
           0 <= r.duration /\ r.duration <= MOUSE_CLICK_MAX_DELTA
      [] IsFlushRecord(r) -> 0 <= r.duration
      [] OTHER -> TRUE

(* C29  When the input timestamps never step back, every                  *)
(* key_click written has a duration from 0 to KEY_CLICK_MAX_DELTA, every   *)
(* mouse_click a duration from 0 to MOUSE_CLICK_MAX_DELTA, and every       *)
(* typed_string, condensed_move and condensed_scroll a duration of at      *)
(* least 0.                                                                *)
C29_DurationBounds ==
    InOrder(input) =>
        \A i \in 1..Len(output) : DurationInBounds(output[i])

(* A mouse click and then one move or scroll, in order, and finalize: the  *)
(* mouse_click is written with the time from press to release, above 0,    *)
(* and the condensed record of the single sample with duration 0.          *)
C29_Witness ==
    /\ closed
    /\ InOrder(input)
    /\ Len(input) = 3
    /\ IsRecordOf(input[1], "mouse", "click")
    /\ Len(output) = 2
    /\ output[1].type = "mouse_click"
    /\ output[1].duration = input[2].ts - input[1].ts
    /\ output[1].duration > 0
    /\ output[2].type \in {"condensed_move", "condensed_scroll"}
    /\ output[2].duration = 0

---------------------------------------------------------------------------
(* An event of a shape that the classification does not recognise *)
UnknownDevice(e) == e.device \notin {"keyboard", "mouse"}

UnknownMouseType(e) ==
    e.device = "mouse" /\ e.type \notin {"click", "move", "scroll"}

UnknownKeyboardType(e) ==
    e.device = "keyboard" /\ e.type \notin {"press", "release"}

(* The call has flushed all three buffers and has then written the         *)
(* incoming event, unchanged and once.                                     *)
PassedThrough ==
    /\ Written # <<>>
    /\ Written[Len(Written)] = NewInput
    /\ NumEqual(Written, NewInput) = 1
    /\ typed_char_buffer' = <<>>
    /\ mouse_move_buffer' = <<>>
    /\ mouse_scroll_buffer' = <<>>

(* C30 as stated: an event of an unknown device, a mouse event of a type   *)
(* other than click, move and scroll, and a keyboard event of a type other *)
(* than press and release, is written to the output unchanged exactly once *)
(* by the call that processes it, after all three buffers were flushed.    *)
(* Checked for streams of well-formed events, where no flush raises.       *)
C30_UnrecognisedPassThrough ==
    [][(/\ ProcessStep
        /\ AllWellFormed'
        /\ \/ UnknownDevice(NewInput)
           \/ UnknownMouseType(NewInput)
           \/ UnknownKeyboardType(NewInput))
       => PassedThrough
    ]_vars

---------------------------------------------------------------------------
(* The sum of field f over the records of type ty in seq *)
FieldSum(seq, ty, f) ==
    LET recs == SelectSeq(seq, LAMBDA r : r.type = ty)
    IN  Sum([i \in 1..Len(recs) |-> recs[i][f]])

(* C31  After finalize, the num_moves of the condensed_move records add up *)
(* to the number of move events in the input, the num_scrolls of the       *)
(* condensed_scroll records to the number of scroll events, and their      *)
(* total_dx and total_dy to the sums of dx and dy over the input scrolls.  *)
C31_SampleConservation ==
    closed =>
        /\ FieldSum(output, "condensed_move", "num_moves")
             = NumOfType(input, "move")
        /\ FieldSum(output, "condensed_scroll", "num_scrolls")
             = NumOfType(input, "scroll")
        /\ FieldSum(output, "condensed_scroll", "total_dx")
             = FieldSum(input, "scroll", "dx")
        /\ FieldSum(output, "condensed_scroll", "total_dy")
             = FieldSum(input, "scroll", "dy")

(* Two scrolls with different deltas, a move between them and a move       *)
(* after them: four records after finalize, the two condensed_scroll       *)
(* records carrying the deltas of both scrolls between them.               *)
C31_Witness ==
    /\ closed
    /\ Len(input) = 4
    /\ IsGesture(input[1], "scroll")
    /\ IsGesture(input[2], "move")
    /\ IsGesture(input[3], "scroll")
    /\ IsGesture(input[4], "move")
    /\ input[1].dx # input[3].dx
    /\ Len(output) = 4
    /\ FieldSum(output, "condensed_scroll", "total_dx") = 0
    /\ FieldSum(output, "condensed_scroll", "total_dy") = 2
    /\ FieldSum(output, "condensed_move", "num_moves") = 2

---------------------------------------------------------------------------
(* The elements of a typed-character buffer are in the order of their      *)
(* press timestamps.                                                       *)
InPressOrder(buf) == \A i \in 1..(Len(buf) - 1) : buf[i].ts <= buf[i + 1].ts

(* ts is the earliest press timestamp of the buffer *)
IsEarliestPress(buf, ts) ==
    /\ \E i \in 1..Len(buf) : buf[i].ts = ts
    /\ \A i \in 1..Len(buf) : ts <= buf[i].ts

(* C32 as stated: when the input timestamps never step back, a             *)
(* typed_string record is written from a buffer whose characters are in    *)
(* the order of their press timestamps, and its ts is the earliest press   *)
(* timestamp among them, also when a later key is pressed before an        *)
(* earlier key is released.                                                *)
C32_TypedInPressOrder ==
    [][InOrder(input') =>
         \A i \in 1..Len(Written) :
            Written[i].type = "typed_string" =>
               /\ Written[i].string = BufferChars(typed_char_buffer)
               /\ InPressOrder(typed_char_buffer)
               /\ IsEarliestPress(typed_char_buffer, Written[i].ts)
    ]_vars

---------------------------------------------------------------------------
(* The compressor after one more call of finalize *)
FinalizedAgain == finalize(State)

(* C33  finalize called again right after finalize writes no record and    *)
(* leaves the three buffers and the pending-press table empty.             *)
C33_SecondFinalizeEmitsNothing ==
    closed =>
        /\ ~FinalizedAgain.error
        /\ FinalizedAgain.output = output
        /\ FinalizedAgain.typed_char_buffer = <<>>
        /\ FinalizedAgain.mouse_move_buffer = <<>>
        /\ FinalizedAgain.mouse_scroll_buffer = <<>>
        /\ FinalizedAgain.pending_events = <<>>

(* A key press, a mouse press and a scroll, then finalize: the first call  *)
(* flushed the scroll and logged both pending presses.                     *)
C33_Witness ==
    /\ closed
    /\ Len(input) = 3
    /\ IsRecordOf(input[1], "keyboard", "press")
    /\ IsRecordOf(input[2], "mouse", "click")
    /\ IsGesture(input[3], "scroll")
    /\ Len(output) = 3
    /\ output[1].type = "condensed_scroll"
    /\ output[2] = input[1]
    /\ output[3] = input[2]

---------------------------------------------------------------------------
(* The entries of a pending-press table under ids other than id *)
PendingExcept(d, id) == SelectSeq(d, LAMBDA p : p.id # id)

(* The call has appended nothing to the buffer: it is what it was, or it   *)
(* has been flushed.                                                       *)
NotAppended(before, after) == after \in {before, <<>>}

(* C34  A mouse move or scroll leaves the pending-press table unchanged; a *)
(* keyboard press changes the table at most at the entry of its key and    *)
(* appends to no buffer; no keyboard event appends to the move or scroll   *)
(* buffer, and no mouse event appends to the typed-character buffer.       *)
C34_FrameConditions ==
    [][ProcessStep =>
         /\ (IsGesture(NewInput, "move") \/ IsGesture(NewInput, "scroll"))
               => pending_events' = pending_events
         /\ KeyStep("press") =>
               /\ PendingExcept(pending_events', NewKeyId)
                    = PendingExcept(pending_events, NewKeyId)
               /\ NotAppended(typed_char_buffer, typed_char_buffer')
         /\ NewInput.device = "keyboard" =>
               /\ NotAppended(mouse_move_buffer, mouse_move_buffer')
               /\ NotAppended(mouse_scroll_buffer, mouse_scroll_buffer')
         /\ NewInput.device = "mouse" =>
               NotAppended(typed_char_buffer, typed_char_buffer')
    ]_vars

(* A key and a mouse button are down when a move comes in: both presses    *)
(* are still pending after it, and the move is in its buffer.              *)
C34_Witness ==
    /\ Len(input) = 3
    /\ IsRecordOf(input[1], "keyboard", "press")
    /\ IsRecordOf(input[2], "mouse", "click")
    /\ IsGesture(input[3], "move")
    /\ Len(pending_events) = 2
    /\ pending_events[1].ev = input[1]
    /\ pending_events[2].ev = input[2]
    /\ mouse_move_buffer = <<input[3]>>

====
